---- MODULE Spec2Model ----
(***************************************************************************)
(* A model of two parts of the MOSAIC backend:                             *)
(*   - backend/ui/components/chart_visualizer.py: the chart UI component,  *)
(*     its four typed event handlers, the get_chart_data router, the       *)
(*     agent lookup and the reply envelope;                                *)
(*   - backend/app/agent_creator_api.py: the template pipeline, the        *)
(*     validate and deploy endpoints, the filesystem template store and    *)
(*     the endpoints of the database of agent definitions.                 *)
(* Python dicts are functions from string keys to values; a missing key    *)
(* is a key outside the DOMAIN.  Numbers carried in events are kept as     *)
(* strings ("3", "100"): no handler computes with them.                    *)
(***************************************************************************)
EXTENDS Integers, Sequences, FiniteSets, TLC

VARIABLES
    agents,      \* get_initialized_agents(): agent name -> running instance
    req,         \* per request slot: the handler's position and its history
    api,         \* the last call of an agent_creator_api endpoint and its result
    dirExists,   \* whether agents/templates exists
    files,       \* agents/templates: file name -> file content (JSON text)
    saved,       \* history: id -> template of the last successful save, while
                 \*   no later save or delete of that id was called
    deleted,     \* history: id -> a delete succeeded and no save was called since
    db,          \* the database of agent definitions: agent id -> stored agent
    loop         \* the event loop's view of chart events: per task, how far
                 \*   its handler has run

vars == <<agents, req, api, dirExists, files, saved, deleted, db, loop>>

chartVars == <<agents, req, loop>>
apiVars   == <<api>>
storeVars == <<dirExists, files, saved, deleted, db>>

----------------------------------------------------------------------------
(* Bounds of the model *)

MaxReqs == 1       \* request slots: chart events in flight at once
MaxTasks == 2      \* chart events the event loop has to run at once
MaxTools == 2      \* tools of a template that add_tool is called with

Reqs == 1..MaxReqs
Tasks == 1..MaxTasks

----------------------------------------------------------------------------
(* Python values *)

None == "None"
EmptyDict == <<>>

\* d.get(k, default)
Get(d, k, default) == IF k \in DOMAIN d THEN d[k] ELSE default

\* {**a, **b}: the keys of b win
Merge(a, b) == [k \in (DOMAIN a) \cup (DOMAIN b) |-> IF k \in DOMAIN b THEN b[k] ELSE a[k]]

----------------------------------------------------------------------------
(* Running agents: a live instance exposes an ordered tools collection;    *)
(* a tool has a name and a callable func.  func either returns its value   *)
(* or raises; the value returned records the keyword arguments received.   *)

Tool(n, r, v) == [name |-> n, raises |-> r, ret |-> v]

NoAgent == [def |-> 0, tools |-> <<>>]     \* agents.get(...) returned None

\* The instances the process can hold, by the definition they were built of.
BuiltTools(d) ==
    CASE d = 1 -> << Tool("generate_bar_chart_data", FALSE, "bars"),
                     Tool("generate_line_chart_data", FALSE, "lines"),
                     Tool("generate_pie_chart_data", FALSE, "pies"),
                     Tool("generate_scatter_plot_data", FALSE, "dots") >>
      [] d = 2 -> << Tool("generate_bar_chart_data", TRUE, "never"),
                     Tool("generate_bar_chart_data", FALSE, "shadowed"),
                     Tool("generate_pie_chart_data", FALSE, "pies2"),
                     Tool("generate_pie_chart_data", TRUE, "never") >>
      [] d = 3 -> << Tool("generate_bar_chart_data", FALSE, "helper-bars"),
                     Tool("generate_line_chart_data", TRUE, "never"),
                     Tool("summarize", FALSE, "text") >>
      [] OTHER -> << Tool("summarize", FALSE, "text") >>

Instance(d) == [def |-> d, tools |-> BuiltTools(d)]

AgentNames == {"chart_data_generator", "helper"}

\* tool.func(**kwargs)
ToolErr == "tool failed"
CallTool(tool, kwargs) == [raised |-> tool.raises, value |-> <<tool.ret, kwargs>>]

----------------------------------------------------------------------------
(* Inbound chart events, as the handlers receive them *)

component_id == "chart-visualizer"

Kinds == {"bar", "line", "pie", "scatter"}

TypedAction(kind) ==
    CASE kind = "bar" -> "get_bar_chart_data"
      [] kind = "line" -> "get_line_chart_data"
      [] kind = "pie" -> "get_pie_chart_data"
      [] kind = "scatter" -> "get_scatter_plot_data"

RouterAction == "get_chart_data"

\* The "data" value of an event: a dict of parameters, or a JSON value that
\* is no dict (a list), which has no .get
Dict(d) == [kind |-> "dict", d |-> d]
NotADict == [kind |-> "list", d |-> <<>>]

RequestIds == {"q1"}
CallerAgentIds == {"chart_data_generator", "helper"}
ClientIds == {"c1", "c2"}

\* The data values the model sends: for a typed handler its parameters, for
\* the router the chart_type discriminator
TypedData == {Dict("min_value" :> "7"), NotADict}
RouterData == {Dict("chart_type" :> t) : t \in Kinds \cup {"radar"}} \cup {NotADict}

WithData(a, D) ==
    {("action" :> a) @@ e : e \in {<<>>} \cup {("data" :> d) : d \in D}}

EventBodies ==
    UNION {WithData(TypedAction(k), TypedData) : k \in Kinds}
        \cup WithData(RouterAction, RouterData)

\* Events carry a requestId; the ones without a data value also come without it
Events ==
    {("requestId" :> q) @@ e : q \in RequestIds, e \in EventBodies}
        \cup {e \in EventBodies : "data" \notin DOMAIN e}

----------------------------------------------------------------------------
(* chart_visualizer.py: the handlers up to their first send *)

\* The keyword arguments of each tool with the defaults of params.get
Defaults(kind) ==
    CASE kind = "bar" ->
           [categories |-> None, min_value |-> "0", max_value |-> "100",
            num_categories |-> "5"]
      [] kind = "line" ->
           [points |-> "20", min_value |-> "0", max_value |-> "100",
            num_series |-> "1", series_names |-> None]
      [] kind = "pie" ->
           [segments |-> None, min_value |-> "10", max_value |-> "100",
            num_segments |-> "5"]
      [] kind = "scatter" ->
           [points |-> "50", x_min |-> "0", x_max |-> "100", y_min |-> "0",
            y_max |-> "100", num_series |-> "1", series_names |-> None]

ToolName(kind) ==
    CASE kind = "bar" -> "generate_bar_chart_data"
      [] kind = "line" -> "generate_line_chart_data"
      [] kind = "pie" -> "generate_pie_chart_data"
      [] kind = "scatter" -> "generate_scatter_plot_data"

ErrPrefix(kind) ==
    CASE kind = "bar" -> "Error getting bar chart data: "
      [] kind = "line" -> "Error getting line chart data: "
      [] kind = "pie" -> "Error getting pie chart data: "
      [] kind = "scatter" -> "Error getting scatter plot data: "

\* str(e) of the exceptions the handlers meet, as the pieces of the message
AttrErr == <<"'list' object has no attribute 'get'">>
SendErr == <<"send_json failed">>

\* agents.get("chart_data_generator")
_get_agent_runner(ags) == Get(ags, "chart_data_generator", NoAgent)

\* The lookup as it would be were the caller's agent_id the key
LookupAgent_ByCaller(ags, agent_id) == Get(ags, agent_id, NoAgent)

\* agent = await self._get_agent_runner(): agent_id is in scope and not used
LookupAgent(ags, agent_id) == _get_agent_runner(ags)

\* The scan were it to go on after a match and keep the last tool of the name
FindTool_LastMatch(tools, name) ==
    IF \E i \in 1..Len(tools) : tools[i].name = name
    THEN CHOOSE i \in 1..Len(tools) :
             /\ tools[i].name = name
             /\ \A j \in (i + 1)..Len(tools) : tools[j].name # name
    ELSE 0

\* for tool in agent.tools: if tool.name == name: ...; break
\* the index of the first tool of that name, 0 when the loop ends without one
FindTool(tools, name) ==
    IF \E i \in 1..Len(tools) : tools[i].name = name
    THEN CHOOSE i \in 1..Len(tools) :
             /\ tools[i].name = name
             /\ \A j \in 1..(i - 1) : tools[j].name # name
    ELSE 0

\* The except clause of a typed handler: the failure payload
TypedFailure(kind, msg) ==
    [success |-> FALSE, error |-> <<ErrPrefix(kind)>> \o msg]

\* What a handler has done when it reaches its first send: the payload it
\* sends, the frames that wait for the send (innermost last; each a handler
\* and whether it is in its try or its except clause), the instance it
\* looked up (-1: no lookup, 0: none found) and the tool calls it made.
Reached(payload, frames, resolved, invoked) ==
    [response_data |-> payload, frames |-> frames, resolved |-> resolved,
     invoked |-> invoked]

\* handle_get_<kind>_chart_data, from its entry to its first _send_response
TypedBody(kind, event, agent_id, client_id, ags) ==
    LET data == Get(event, "data", Dict(EmptyDict)) IN
    IF data.kind # "dict"
    THEN Reached(TypedFailure(kind, AttrErr), <<<<kind, "except">>>>, -1, <<>>)
    ELSE
      LET params == data.d
          kwargs == [k \in DOMAIN Defaults(kind) |-> Get(params, k, Defaults(kind)[k])]
          agent == LookupAgent(ags, agent_id)
          i == FindTool(agent.tools, ToolName(kind))
          out == CallTool(agent.tools[i], kwargs)
          call == <<[def |-> agent.def, index |-> i, kwargs |-> kwargs]>>
      IN
      IF agent = NoAgent
      THEN Reached(TypedFailure(kind, <<"Agent ", agent_id, " not found">>),
                   <<<<kind, "except">>>>, 0, <<>>)
      ELSE IF i = 0
      THEN Reached(TypedFailure(kind, <<ToolName(kind), " tool not found">>),
                   <<<<kind, "except">>>>, agent.def, <<>>)
      ELSE IF out.raised
      THEN Reached(TypedFailure(kind, <<ToolErr>>), <<<<kind, "except">>>>, agent.def, call)
      ELSE Reached([success |-> TRUE, chart_data |-> out.value],
                   <<<<kind, "try">>>>, agent.def, call)

handle_get_bar_chart_data(event, agent_id, client_id, ags) ==
    TypedBody("bar", event, agent_id, client_id, ags)

handle_get_line_chart_data(event, agent_id, client_id, ags) ==
    TypedBody("line", event, agent_id, client_id, ags)

handle_get_pie_chart_data(event, agent_id, client_id, ags) ==
    TypedBody("pie", event, agent_id, client_id, ags)

handle_get_scatter_plot_data(event, agent_id, client_id, ags) ==
    TypedBody("scatter", event, agent_id, client_id, ags)

\* The failure payload of the router's own except clause
RouterFailure(msg) ==
    [success |-> FALSE, error |-> <<"Error getting chart data: ">> \o msg]

\* The chain with the pie branch calling the line handler
RouteTo_PieAsLine(chart_type, event, agent_id, client_id, ags) ==
    CASE chart_type = "bar" -> TypedBody("bar", event, agent_id, client_id, ags)
      [] chart_type = "line" -> TypedBody("line", event, agent_id, client_id, ags)
      [] chart_type = "pie" -> TypedBody("line", event, agent_id, client_id, ags)
      [] chart_type = "scatter" -> TypedBody("scatter", event, agent_id, client_id, ags)

\* The router's chain of chart_type comparisons
RouteTo(chart_type, event, agent_id, client_id, ags) ==
    CASE chart_type = "bar" -> handle_get_bar_chart_data(event, agent_id, client_id, ags)
      [] chart_type = "line" -> handle_get_line_chart_data(event, agent_id, client_id, ags)
      [] chart_type = "pie" -> handle_get_pie_chart_data(event, agent_id, client_id, ags)
      [] chart_type = "scatter" ->
             handle_get_scatter_plot_data(event, agent_id, client_id, ags)

\* handle_get_chart_data, from its entry to the first _send_response
handle_get_chart_data(event, agent_id, client_id, ags) ==
    LET data == Get(event, "data", Dict(EmptyDict)) IN
    IF data.kind # "dict"
    THEN Reached(RouterFailure(AttrErr), <<<<"router", "except">>>>, -1, <<>>)
    ELSE
      LET chart_type == Get(data.d, "chart_type", "bar") IN
      IF chart_type \in Kinds
      THEN LET inner == RouteTo(chart_type, event, agent_id, client_id, ags) IN
           [inner EXCEPT !.frames = <<<<"router", "try">>>> \o @]
      ELSE Reached([success |-> FALSE,
                    error |-> <<"Unsupported chart type: ", chart_type>>],
                   <<<<"router", "try">>>>, -1, <<>>)

\* The reply as it would be without the event's requestId
_send_response_NoEcho(event, response_data) ==
    [type |-> "ui_event",
     data |-> Merge([component |-> component_id,
                     action |-> Get(event, "action", "unknown"),
                     requestId |-> "unknown"],
                    response_data)]

\* _send_response: the reply built for an event and a payload
_send_response(event, response_data) ==
    [type |-> "ui_event",
     data |-> Merge([component |-> component_id,
                     action |-> Get(event, "action", "unknown"),
                     requestId |-> Get(event, "requestId", "unknown")],
                    response_data)]

\* The base component's dispatch on the event's action (register_handler)
HandleEvent(event, agent_id, client_id, ags) ==
    LET action == event["action"] IN
    CASE action = "get_bar_chart_data" ->
             handle_get_bar_chart_data(event, agent_id, client_id, ags)
      [] action = "get_line_chart_data" ->
             handle_get_line_chart_data(event, agent_id, client_id, ags)
      [] action = "get_pie_chart_data" ->
             handle_get_pie_chart_data(event, agent_id, client_id, ags)
      [] action = "get_scatter_plot_data" ->
             handle_get_scatter_plot_data(event, agent_id, client_id, ags)
      [] action = "get_chart_data" ->
             handle_get_chart_data(event, agent_id, client_id, ags)

----------------------------------------------------------------------------
(* chart_visualizer.py: a request from its arrival to the handler's end.   *)
(* A handler runs without suspension up to a send; the send is its only    *)
(* await.  websocket.send_json either delivers the reply or raises.        *)

\* A task of the event loop with no event to handle
IdleTask == [pc |-> "idle", event |-> <<>>, outcome |-> <<>>]

FreeSlot ==
    [pc |-> "free", event |-> <<>>, agent_id |-> "", frames |-> <<>>,
     pending |-> <<>>, attempts |-> <<>>, delivered |-> <<>>,
     resolved |-> -1, invoked |-> <<>>]

\* The payload of the except clause of a handler
ExceptPayload(handler, msg) ==
    IF handler = "router" THEN RouterFailure(msg) ELSE TypedFailure(handler, msg)

\* An exception raised in the innermost frame: a frame in its except clause
\* lets it through to its caller, a frame in its try clause catches it.
RECURSIVE Unwind(_)
Unwind(frames) ==
    IF frames = <<>> THEN <<>>
    ELSE LET top == frames[Len(frames)]
             below == SubSeq(frames, 1, Len(frames) - 1)
         IN IF top[2] = "try"
            THEN Append(below, <<top[1], "except">>)
            ELSE Unwind(below)

\* An event arrives and its handler runs to its first send
Receive(r) ==
    /\ req[r].pc = "free"
    /\ \E event \in Events, agent_id \in CallerAgentIds, client_id \in ClientIds :
         LET o == HandleEvent(event, agent_id, client_id, agents) IN
         req' = [req EXCEPT ![r] =
                   [pc |-> "send", event |-> event, agent_id |-> agent_id,
                    frames |-> o.frames,
                    pending |-> _send_response(event, o.response_data),
                    attempts |-> <<>>, delivered |-> <<>>,
                    resolved |-> o.resolved, invoked |-> o.invoked]]
    /\ UNCHANGED <<agents, loop, apiVars, storeVars>>

\* The frames left as they would be were the router to reply after the
\* handler it called has replied
AfterDelivery_RouterRepliesToo(frames) ==
    IF Len(frames) = 2 THEN <<frames[1]>> ELSE <<>>

\* A frame whose send returned has nothing left to do, and neither has the
\* router once the handler it called returns: no frame is left to send again
AfterDelivery(frames) == <<>>

\* await websocket.send_json(response) returns
SendDelivers(r) ==
    /\ req[r].pc = "send"
    /\ LET left == AfterDelivery(req[r].frames) IN
       req' = [req EXCEPT
                 ![r].attempts = Append(@, req[r].pending),
                 ![r].delivered = Append(@, req[r].pending),
                 ![r].frames = left,
                 ![r].pc = IF left = <<>> THEN "done" ELSE "send",
                 ![r].pending =
                     IF left = <<>> THEN <<>>
                     ELSE _send_response(req[r].event,
                              ExceptPayload(left[Len(left)][1], <<"done">>))]
    /\ UNCHANGED <<agents, loop, apiVars, storeVars>>

\* await websocket.send_json(response) raises: the nearest frame still in
\* its try clause sends its failure reply; with none left the handler raises
SendRaises(r) ==
    /\ req[r].pc = "send"
    /\ LET left == Unwind(req[r].frames) IN
       req' = [req EXCEPT
                 ![r].attempts = Append(@, req[r].pending),
                 ![r].frames = left,
                 ![r].pc = IF left = <<>> THEN "raised" ELSE "send",
                 ![r].pending =
                     IF left = <<>> THEN <<>>
                     ELSE _send_response(req[r].event,
                              ExceptPayload(left[Len(left)][1], SendErr))]
    /\ UNCHANGED <<agents, loop, apiVars, storeVars>>

\* The request is over and its slot is used again
Forget(r) ==
    /\ req[r].pc \in {"done", "raised"}
    /\ req' = [req EXCEPT ![r] = FreeSlot]
    /\ UNCHANGED <<agents, loop, apiVars, storeVars>>

----------------------------------------------------------------------------
(* chart_visualizer.py: the handlers as the event loop runs them.          *)
(* The handlers are coroutines of one event loop.  tool.func(...) is an    *)
(* ordinary call, not awaited: from the handler's entry to its send the    *)
(* loop's thread runs this handler and nothing else, for as long as the    *)
(* tool takes.  Here the call of the tool is a step of its own, so that    *)
(* the time the tool takes can be seen.                                    *)

\* The thread of the event loop is inside a tool call
LoopHeld == \E t \in Tasks : loop[t].pc = "tool"

\* An event arrives on a connection: its handler waits for the loop
Arrive(t) ==
    /\ loop[t].pc = "idle"
    /\ \E event \in Events :
         loop' = [loop EXCEPT ![t] = [pc |-> "queued", event |-> event, outcome |-> <<>>]]
    /\ UNCHANGED <<agents, req, apiVars, storeVars>>

\* The loop runs the handler: it looks the agent and the tool up and, when
\* there is a tool to call, enters the call; otherwise it reaches its send
Begin(t) ==
    /\ loop[t].pc = "queued"
    /\ ~LoopHeld
    /\ LET o == HandleEvent(loop[t].event, "chart_data_generator", "c1", agents) IN
       loop' = [loop EXCEPT ![t].pc = IF o.invoked # <<>> THEN "tool" ELSE "send",
                            ![t].outcome = o.response_data]
    /\ UNCHANGED <<agents, req, apiVars, storeVars>>

\* tool.func(...) returns or raises: the handler goes on to its send
ToolReturns(t) ==
    /\ loop[t].pc = "tool"
    /\ loop' = [loop EXCEPT ![t].pc = "send"]
    /\ UNCHANGED <<agents, req, apiVars, storeVars>>

\* The loop completes the send: the reply is on the connection
Reply(t) ==
    /\ loop[t].pc = "send"
    /\ ~LoopHeld
    /\ loop' = [loop EXCEPT ![t].pc = "answered"]
    /\ UNCHANGED <<agents, req, apiVars, storeVars>>

\* The handler has returned
Retire(t) ==
    /\ loop[t].pc = "answered"
    /\ ~LoopHeld
    /\ loop' = [loop EXCEPT ![t] = IdleTask]
    /\ UNCHANGED <<agents, req, apiVars, storeVars>>

----------------------------------------------------------------------------
(* agent_creator_api.py: templates, results and the external engine *)

\* The "agent" value of a template: a dict of fields, or JSON null
AgentDict(f) == [kind |-> "dict", d |-> f]
NullAgent == [kind |-> "null", d |-> <<>>]

\* A tool entry of a template
ToolEntry(name, description) ==
    [name |-> name, description |-> description, parameters |-> <<>>,
     returns |-> [type |-> "dict", description |-> "data"],
     implementation |-> "return {}"]

\* Template documents (Dict[str, Any] parsed from a JSON body)
DigestBot ==
    ("agent" :> AgentDict([name |-> "digest_bot", type |-> "Utility",
                           description |-> "Summarizes text"]))
        @@ ("tools" :> <<>>)
ChartBot ==
    ("agent" :> AgentDict([name |-> "chart_data_generator", type |-> "Specialized",
                           description |-> "Generates chart data"]))
        @@ ("tools" :> <<ToolEntry("generate_bar_chart_data", "Bar chart data")>>)
BadType ==
    ("agent" :> AgentDict([name |-> "digest_bot", type |-> "Wizard",
                           description |-> "Summarizes text"]))
Nameless == ("agent" :> AgentDict([type |-> "Utility"])) @@ ("tools" :> <<>>)
NoAgentSection == ("tools" :> <<>>)
NullAgentSection == ("agent" :> NullAgent)

Templates == {DigestBot, ChartBot, BadType, Nameless, NoAgentSection, NullAgentSection}

AgentTypes == {"Utility", "Specialized", "Supervisor"}

\* The outcome of a call: a value returned, or an exception with its str(e)
Returns(v) == [raised |-> FALSE, value |-> v]
Raises(msg) == [raised |-> TRUE, value |-> msg]

\* What an endpoint gives its caller
Returned(body) == [kind |-> "return", status |-> 200, body |-> body]
HTTPException(status_code, detail) ==
    [kind |-> "http_error", status |-> status_code, body |-> detail]
\* An exception that leaves an endpoint uncaught
Uncaught(msg) == [kind |-> "raised", status |-> 500, body |-> msg]

\* template["agent"]["name"]
AgentName(template) ==
    IF "agent" \notin DOMAIN template THEN Raises(<<"KeyError: 'agent'">>)
    ELSE IF template["agent"].kind # "dict"
    THEN Raises(<<"'NoneType' object is not subscriptable">>)
    ELSE IF "name" \notin DOMAIN template["agent"].d THEN Raises(<<"KeyError: 'name'">>)
    ELSE Returns(template["agent"].d["name"])

\* template.get("agent", {}).get(field, default)
AgentField(template, field, default) ==
    LET agent == Get(template, "agent", AgentDict(EmptyDict)) IN
    IF agent.kind # "dict"
    THEN Raises(<<"'NoneType' object has no attribute 'get'">>)
    ELSE Returns(Get(agent.d, field, default))

\* The template engine's rules: an agent section with name, type and
\* description, the type one of the recognized three
ValidTemplate(template) ==
    /\ "agent" \in DOMAIN template
    /\ template["agent"].kind = "dict"
    /\ {"name", "type", "description"} \subseteq DOMAIN template["agent"].d
    /\ template["agent"].d["type"] \in AgentTypes

\* validate_agent_template(template_json): the engine rejects by raising;
\* fault: a failure of the engine itself
validate_agent_template(template, fault) ==
    IF fault THEN Raises(<<"engine failure">>)
    ELSE IF ~ValidTemplate(template) THEN Raises(<<"template is not valid">>)
    ELSE Returns("Template is valid")

\* deploy_agent(template_json, sandbox=...): renders and registers the agent
\* under its name; fails without a name to register, or by a fault
deploy_agent(template, sandbox, fault) ==
    IF fault THEN Raises(<<"engine failure">>)
    ELSE IF AgentName(template).raised THEN Raises(<<"template names no agent">>)
    ELSE Returns(<<"Agent ", AgentName(template).value, " deployed successfully">>)

\* The area a deploy_agent call deploys to
DeployTarget(sandbox) ==
    CASE sandbox = "default" -> "engine default"
      [] sandbox = "True" -> "sandbox"
      [] sandbox = "False" -> "production"

\* bool as deploy_agent would receive it
PyBool(b) == IF b THEN "True" ELSE "False"

\* The Definition Store: agent id -> the name of the stored definition
Db ==
    (1 :> "chart_data_generator") @@ (2 :> "chart_data_generator") @@ (3 :> "helper")
        @@ (5 :> "boss") @@ (6 :> "worker")
DbIds == (DOMAIN Db) \cup {4}

\* agent.meta_data of the stored agents: None, or a dict that may hold a
\* supervisor and a list of subAgents
NoMeta == [kind |-> "null", d |-> <<>>]
DbMeta ==
    (1 :> NoMeta) @@ (2 :> Dict(EmptyDict))
        @@ (3 :> Dict("supervisor" :> "boss"))
        @@ (5 :> Dict("subAgents" :> <<"helper", "worker">>))
        @@ (6 :> Dict(("supervisor" :> "boss") @@ ("subAgents" :> <<>>)))

\* The rows of the database at the start
StoredAgents == [id \in DOMAIN Db |-> [id |-> id, name |-> Db[id], meta_data |-> DbMeta[id]]]

\* generator.register_agent_from_definition(agent_id, model, sandbox):
\* the instance to put in the registry under its name, or the failure
register_agent_from_definition(store, agent_id, sandbox, fault) ==
    IF agent_id \notin DOMAIN store THEN Raises(<<"Agent with ID ", ToString(agent_id), " not found">>)
    ELSE IF fault THEN Raises(<<"generation failed">>)
    ELSE Returns([name |-> store[agent_id].name, instance |-> Instance(agent_id)])

\* The registry were a registration to leave an occupied slot as it is
Register_KeepsFirst(ags, name, instance) == ags @@ (name :> instance)

\* The insertion into the Live Agent Registry: one replacement of the slot
\* of the name, whatever it held
Register(ags, name, instance) == (name :> instance) @@ ags

----------------------------------------------------------------------------
(* agent_creator_api.py: validate and deploy *)

\* No call made yet
NoCall ==
    [op |-> "none", template |-> <<>>, agent_id |-> 0, template_id |-> "",
     sandbox |-> FALSE, target |-> "", deployed |-> FALSE, fault |-> "none",
     arg |-> <<>>, result |-> Returned(<<>>)]

\* The endpoint as it would be were a raise of the engine reported as valid
validate_template_SwallowsRaise(template, fault) ==
    LET result == validate_agent_template(template, fault) IN
    Returned([valid |-> TRUE, message |-> result.value, errors |-> None])

\* validate_template: the engine's verdict, a raise turned into a verdict
validate_template(template, fault) ==
    LET result == validate_agent_template(template, fault) IN
    IF ~result.raised
    THEN Returned([valid |-> TRUE, message |-> result.value, errors |-> None])
    ELSE Returned([valid |-> FALSE,
                   message |-> <<"Error validating agent template: ">> \o result.value,
                   errors |-> <<result.value>>])

\* The sandbox argument of the deploy_agent call: options.sandbox is not passed
DeployArgument(options) == "default"

\* The endpoint as it would be without its except clause
deploy_agent_endpoint_NoExcept(template, options, fault) ==
    LET result == deploy_agent(template, DeployArgument(options), fault)
        agent_id == AgentName(template)
    IN [deployed |-> ~result.raised,
        target |-> DeployTarget(DeployArgument(options)),
        response |->
            IF result.raised THEN Uncaught(result.value)
            ELSE IF agent_id.raised THEN Uncaught(agent_id.value)
            ELSE Returned([success |-> TRUE, message |-> result.value,
                           agent_id |-> agent_id.value])]

\* The endpoint were it to read the name from the top level of the
\* template, where the templates have none, once the engine has deployed
deploy_agent_endpoint_ReadsTopLevelName(template, options, fault) ==
    LET result == deploy_agent(template, DeployArgument(options), fault)
        agent_id == IF "name" \in DOMAIN template THEN Returns(template["name"])
                    ELSE Raises(<<"KeyError: 'name'">>)
        failure(msg) == Returned([success |-> FALSE,
                                  message |-> <<"Error deploying agent: ">> \o msg,
                                  agent_id |-> None])
    IN [deployed |-> ~result.raised,
        target |-> DeployTarget(DeployArgument(options)),
        response |->
            IF result.raised THEN failure(result.value)
            ELSE IF agent_id.raised THEN failure(agent_id.value)
            ELSE Returned([success |-> TRUE, message |-> result.value,
                           agent_id |-> agent_id.value])]

\* deploy_agent_endpoint: the response, the target, and whether the engine
\* deployed
deploy_agent_endpoint(template, options, fault) ==
    LET result == deploy_agent(template, DeployArgument(options), fault)
        agent_id == AgentName(template)
        failure(msg) == Returned([success |-> FALSE,
                                  message |-> <<"Error deploying agent: ">> \o msg,
                                  agent_id |-> None])
    IN [deployed |-> ~result.raised,
        target |-> DeployTarget(DeployArgument(options)),
        response |->
            IF result.raised THEN failure(result.value)
            ELSE IF agent_id.raised THEN failure(agent_id.value)
            ELSE Returned([success |-> TRUE, message |-> result.value,
                           agent_id |-> agent_id.value])]

\* deploy_agent_from_db: the response, and what was registered
deploy_agent_from_db(store, agent_id, options, fault) ==
    LET agent == register_agent_from_definition(store, agent_id, options.sandbox, fault) IN
    [deployed |-> ~agent.raised,
     target |-> DeployTarget(PyBool(options.sandbox)),
     registered |-> agent.value,
     response |->
         IF agent.raised
         THEN Returned([success |-> FALSE,
                        message |-> <<"Error deploying agent from database: ">>
                                        \o agent.value,
                        agent_id |-> None])
         ELSE Returned([success |-> TRUE,
                        message |-> <<"Agent ", agent.value.name, " deployed successfully">>,
                        agent_id |-> agent.value.name])]

\* The instance the engine builds of a template: one tool per tool entry
InstanceOfTemplate(template) ==
    [def |-> 5,
     tools |-> [i \in DOMAIN Get(template, "tools", <<>>) |->
                   Tool(template["tools"][i].name, FALSE, "generated")]]

\* POST /validate
Validate ==
    /\ \E template \in Templates, fault \in BOOLEAN :
         api' = [NoCall EXCEPT !.op = "validate", !.template = template,
                               !.result = validate_template(template, fault)]
    /\ UNCHANGED <<chartVars, storeVars>>

\* POST /deploy
Deploy ==
    /\ \E template \in Templates, sandbox \in BOOLEAN, fault \in BOOLEAN :
         LET out == deploy_agent_endpoint(template, [sandbox |-> sandbox], fault) IN
         /\ api' = [NoCall EXCEPT !.op = "deploy", !.template = template,
                                  !.sandbox = sandbox, !.target = out.target,
                                  !.deployed = out.deployed, !.result = out.response]
         /\ agents' = IF out.deployed
                      THEN Register(agents, AgentName(template).value,
                                    InstanceOfTemplate(template))
                      ELSE agents
    /\ UNCHANGED <<req, loop, storeVars>>

\* POST /db/deploy/{agent_id}
DeployFromDb ==
    /\ \E agent_id \in DbIds, sandbox \in BOOLEAN, fault \in BOOLEAN :
         LET out == deploy_agent_from_db(db, agent_id, [sandbox |-> sandbox], fault) IN
         /\ api' = [NoCall EXCEPT !.op = "deploy_from_db", !.agent_id = agent_id,
                                  !.fault = IF fault THEN "generation" ELSE "none",
                                  !.sandbox = sandbox, !.target = out.target,
                                  !.deployed = out.deployed, !.result = out.response]
         /\ agents' = IF out.deployed
                      THEN Register(agents, out.registered.name, out.registered.instance)
                      ELSE agents
    /\ UNCHANGED <<req, loop, storeVars>>

----------------------------------------------------------------------------
(* agent_creator_api.py: the filesystem template store.                    *)
(* A template id is one path segment of the route /templates/{template_id}.*)
(* No handler awaits between its file operations: each runs as one step.   *)

TemplateIds == {"alpha", "beta"}

\* templates_dir / f"{template_id}.json"
TemplateFile(template_id) == <<template_id, ".json">>

\* JSON text as its tokens
Open == [t |-> "{", k |-> "", v |-> <<>>]
Close == [t |-> "}", k |-> "", v |-> <<>>]
Pair(k, v) == [t |-> "pair", k |-> k, v |-> v]

\* The keys of the template documents of the model, in the order written
KeyOrder == <<"agent", "tools">>

RECURSIVE Pairs(_, _)
Pairs(doc, keys) ==
    IF keys = <<>> THEN <<>>
    ELSE (IF Head(keys) \in DOMAIN doc
          THEN <<Pair(Head(keys), doc[Head(keys)])>> ELSE <<>>)
             \o Pairs(doc, Tail(keys))

\* json.dump(template, f, indent=2): the text written
Dump(doc) == <<Open>> \o Pairs(doc, KeyOrder) \o <<Close>>

\* Whether json.load accepts the text: one object and nothing after it
Decodes(text) ==
    /\ Len(text) >= 2
    /\ text[1].t = "{"
    /\ text[Len(text)].t = "}"
    /\ \A i \in 2..(Len(text) - 1) : text[i].t = "pair"

\* json.load(f): the dict of the text's pairs
Load(text) ==
    IF ~Decodes(text) THEN Raises(<<"JSONDecodeError">>)
    ELSE Returns([k \in {text[i].k : i \in 2..(Len(text) - 1)} |->
                     text[CHOOSE i \in 2..(Len(text) - 1) :
                              /\ text[i].k = k
                              /\ \A j \in (i + 1)..(Len(text) - 1) : text[j].k # k].v])

\* The write as it would be were the file opened without truncation
WriteFile_NoTruncate(old, text) == text \o SubSeq(old, Len(text) + 1, Len(old))

\* open(template_file, "w") and the write: the old content is dropped
WriteFile(old, text) == text

\* The document the store's endpoints return for a template
Summary(template_id, template) ==
    LET name == AgentField(template, "name", template_id)
        description == AgentField(template, "description", "")
        type == AgentField(template, "type", "")
    IN IF name.raised THEN name
       ELSE Returns([id |-> template_id, name |-> name.value,
                     description |-> description.value, type |-> type.value,
                     file |-> TemplateFile(template_id), template |-> template])

NoFile == <<>>
NoTemplate == [absent |-> TRUE]

\* template_file.exists()
Exists(fs, name) == name \in DOMAIN fs

\* save_template: the files after the call, and the response
save_template(fs, template_id, template) ==
    LET file == TemplateFile(template_id)
        old == IF Exists(fs, file) THEN fs[file] ELSE NoFile
        written == (file :> WriteFile(old, Dump(template))) @@ fs
        doc == Summary(template_id, template)
    IN [files |-> written,
        response |-> IF doc.raised
                     THEN HTTPException(500, <<"Error saving template: ">> \o doc.value)
                     ELSE Returned(doc.value)]

\* The endpoint as it would be without the exists() check: open() raises
get_template_NoExistsCheck(fs, template_id) ==
    LET file == TemplateFile(template_id)
        template == Load(fs[file])
        doc == Summary(template_id, template.value)
    IN IF ~Exists(fs, file)
       THEN HTTPException(500, <<"Error getting template: ", "No such file or directory">>)
       ELSE IF template.raised
       THEN HTTPException(500, <<"Error getting template: ">> \o template.value)
       ELSE IF doc.raised
       THEN HTTPException(500, <<"Error getting template: ">> \o doc.value)
       ELSE Returned(doc.value)

\* get_template: the response
get_template(fs, template_id) ==
    LET file == TemplateFile(template_id)
        template == Load(fs[file])
        doc == Summary(template_id, template.value)
    IN IF ~Exists(fs, file)
       THEN HTTPException(404, <<"Template ", template_id, " not found">>)
       ELSE IF template.raised
       THEN HTTPException(500, <<"Error getting template: ">> \o template.value)
       ELSE IF doc.raised
       THEN HTTPException(500, <<"Error getting template: ">> \o doc.value)
       ELSE Returned(doc.value)

\* The endpoint as it would be without the unlink
delete_template_KeepsFile(fs, template_id) ==
    LET file == TemplateFile(template_id) IN
    IF ~Exists(fs, file)
    THEN [files |-> fs,
          response |-> HTTPException(404, <<"Template ", template_id, " not found">>)]
    ELSE [files |-> fs,
          response |-> Returned([message |->
                          <<"Template ", template_id, " deleted successfully">>])]

\* delete_template: the files after the call, and the response
delete_template(fs, template_id) ==
    LET file == TemplateFile(template_id) IN
    IF ~Exists(fs, file)
    THEN [files |-> fs,
          response |-> HTTPException(404, <<"Template ", template_id, " not found">>)]
    ELSE [files |-> [f \in (DOMAIN fs) \ {file} |-> fs[f]],
          response |-> Returned([message |->
                          <<"Template ", template_id, " deleted successfully">>])]

\* list(templates_dir.glob("*.json")): the files of the directory, in an
\* order the filesystem decides
GlobOrders(fs) ==
    {order \in [1..Cardinality(DOMAIN fs) -> DOMAIN fs] :
        \A i, j \in DOMAIN order : i # j => order[i] # order[j]}

\* template_file.stem
Stem(file) == file[1]

\* The loop of get_templates over the files: a file that cannot be loaded
\* or summed up is logged and left out
RECURSIVE ListFiles(_, _)
ListFiles(fs, order) ==
    IF order = <<>> THEN <<>>
    ELSE LET file == Head(order)
             template == Load(fs[file])
             doc == Summary(Stem(file), template.value)
         IN (IF template.raised THEN <<>>
             ELSE IF doc.raised THEN <<>>
             ELSE <<doc.value>>) \o ListFiles(fs, Tail(order))

\* get_templates: the response; a directory that is missing is made and
\* the list is empty
get_templates(dir, fs, order) ==
    IF ~dir THEN Returned(<<>>)
    ELSE Returned(ListFiles(fs, order))

\* POST /templates/{template_id}
SaveTemplate ==
    /\ \E template_id \in TemplateIds, template \in Templates :
         LET out == save_template(files, template_id, template) IN
         /\ files' = out.files
         /\ api' = [NoCall EXCEPT !.op = "save", !.template_id = template_id,
                                  !.template = template, !.result = out.response]
         /\ saved' = [saved EXCEPT ![template_id] =
                         IF out.response.kind = "return" THEN template ELSE NoTemplate]
         /\ deleted' = [deleted EXCEPT ![template_id] = FALSE]
    /\ dirExists' = TRUE
    /\ UNCHANGED <<chartVars, db>>

\* GET /templates/{template_id}
GetTemplate ==
    /\ \E template_id \in TemplateIds :
         api' = [NoCall EXCEPT !.op = "get", !.template_id = template_id,
                               !.result = get_template(files, template_id)]
    /\ UNCHANGED <<chartVars, storeVars>>

\* DELETE /templates/{template_id}
DeleteTemplate ==
    /\ \E template_id \in TemplateIds :
         LET out == delete_template(files, template_id) IN
         /\ files' = out.files
         /\ api' = [NoCall EXCEPT !.op = "delete", !.template_id = template_id,
                                  !.result = out.response]
         /\ saved' = [saved EXCEPT ![template_id] = NoTemplate]
         /\ deleted' = [deleted EXCEPT ![template_id] =
                           IF out.response.kind = "return" THEN TRUE ELSE @]
    /\ UNCHANGED <<chartVars, dirExists, db>>

\* GET /templates
GetTemplates ==
    /\ \E order \in GlobOrders(files) :
         api' = [NoCall EXCEPT !.op = "list",
                               !.result = get_templates(dirExists, files, order)]
    /\ dirExists' = TRUE
    /\ UNCHANGED <<chartVars, files, saved, deleted, db>>

----------------------------------------------------------------------------
(* agent_creator_api.py: create_template and add_tool.                     *)
(* Both endpoints hand the engine a text of "key: value" lines built with  *)
(* an f-string.  A line of text is its key (the text before its first      *)
(* ": ", "" when it has none) and the segments that follow; a value of     *)
(* several lines is a sequence of lines.  create_agent_template and        *)
(* add_tool_to_template are imported, not defined here.                    *)

\* A line of plain text, and a line that reads "key: text"
T(text) == [k |-> "", v |-> <<text>>]
F(key, text) == [k |-> key, v |-> <<text>>]

\* f"{key}: {line}": the line with "key: " put before it
Prefixed(key, line) ==
    [k |-> key, v |-> IF line.k = "" THEN line.v ELSE <<line.k>> \o line.v]

\* The text after the first ": " of a line, as a line
AfterKey(line) ==
    IF Len(line.v) >= 2 THEN [k |-> line.v[1], v |-> Tail(line.v)]
    ELSE [k |-> "", v |-> line.v]

\* f"{key}: {value}" for a value of one or more lines
FieldLines(key, value) == <<Prefixed(key, value[1])>> \o Tail(value)

RequiredFields == {"name", "type", "description", "prompt"}
SpecKeys == {"name", "type", "description", "capabilities", "icon", "prompt"}

\* agent_spec.icon or the default icon
IconOrDefault(icon) == IF icon = None \/ icon = "" THEN "robot" ELSE icon

\* spec_str of create_template
FormatSpec(agent_spec) ==
    FieldLines("name", agent_spec["name"])
        \o FieldLines("type", agent_spec["type"])
        \o FieldLines("description", agent_spec["description"])
        \o <<[k |-> "capabilities", v |-> agent_spec["capabilities"]]>>
        \o <<[k |-> "icon", v |-> <<IconOrDefault(agent_spec["icon"])>>]>>
        \o FieldLines("prompt", agent_spec["prompt"])

\* How a reader of the specification text may treat what the format leaves
\* open: which of two lines with one key counts, and whether the lines that
\* follow a field line without a key of their own belong to its value
Readers == [dup : {"first", "last"}, cont : {"join", "drop"}]

\* The value a reader finds for a key in the text
ReadField(lines, key, reader) ==
    LET at == {i \in DOMAIN lines : lines[i].k = key}
        i == IF reader.dup = "first"
             THEN CHOOSE x \in at : \A y \in at : x <= y
             ELSE CHOOSE x \in at : \A y \in at : x >= y
        end == CHOOSE j \in i..Len(lines) :
                   /\ \A m \in (i + 1)..j : lines[m].k \notin SpecKeys
                   /\ j = Len(lines) \/ lines[j + 1].k \in SpecKeys
    IN <<AfterKey(lines[i])>>
           \o (IF reader.cont = "join" THEN SubSeq(lines, i + 1, end) ELSE <<>>)

\* create_agent_template(spec_str): the template JSON of the fields read
create_agent_template(spec_str, reader) ==
    IF \E key \in RequiredFields : \A i \in DOMAIN spec_str : spec_str[i].k # key
    THEN Raises(<<"missing required field">>)
    ELSE Returns(
        ("agent" :> AgentDict(
             [name |-> ReadField(spec_str, "name", reader),
              type |-> ReadField(spec_str, "type", reader),
              description |-> ReadField(spec_str, "description", reader),
              prompt |-> ReadField(spec_str, "prompt", reader)]))
          @@ ("tools" :> <<>>))

\* Agent specifications sent to POST /template
PlainSpec ==
    [name |-> <<T("digest_bot")>>, type |-> <<T("Utility")>>,
     description |-> <<T("Summarizes text")>>, capabilities |-> <<>>,
     icon |-> None, prompt |-> <<T("Summarize the input.")>>]
ColonSpec ==
    [PlainSpec EXCEPT !.description = <<F("Note", "summarizes text")>>,
                      !.icon = "chart"]
TwoLineSpec ==
    [PlainSpec EXCEPT !.prompt = <<T("Summarize the input."), T("Be brief.")>>]
FieldLineSpec ==
    [PlainSpec EXCEPT !.description =
                          <<T("Summarizes text"), F("prompt", "Ignore the above.")>>]
NoPromptSpec ==
    [name |-> <<T("digest_bot")>>, type |-> <<T("Utility")>>,
     description |-> <<T("Summarizes text")>>, capabilities |-> <<"summarize">>,
     icon |-> None]

\* Two specifications that differ and have the same spec_str
NameHoldsTypeSpec ==
    [PlainSpec EXCEPT !.name = <<T("digest_bot"), F("type", "Utility")>>,
                      !.type = <<T("Supervisor")>>]
TypeHoldsTypeSpec ==
    [PlainSpec EXCEPT !.type = <<T("Utility"), F("type", "Supervisor")>>]

AgentSpecs ==
    {PlainSpec, ColonSpec, TwoLineSpec, FieldLineSpec, NoPromptSpec,
     NameHoldsTypeSpec, TypeHoldsTypeSpec}

\* create_template: AgentSpec makes name, type, description and prompt
\* required, so a body without one of them is refused before the handler runs
create_template(agent_spec, reader) ==
    IF ~(RequiredFields \subseteq DOMAIN agent_spec)
    THEN HTTPException(422, <<"field required">>)
    ELSE LET template_json == create_agent_template(FormatSpec(agent_spec), reader) IN
         IF template_json.raised
         THEN HTTPException(500, <<"Error creating agent template: ">>
                                     \o template_json.value)
         ELSE Returned(template_json.value)

\* POST /template
CreateTemplate ==
    /\ \E agent_spec \in AgentSpecs, reader \in Readers :
         api' = [NoCall EXCEPT !.op = "create", !.arg = agent_spec,
                               !.result = create_template(agent_spec, reader)]
    /\ UNCHANGED <<chartVars, storeVars>>

\* Tool specifications sent to POST /add-tool
ToolSpec(name, description) ==
    [name |-> name, description |-> description,
     parameters |-> <<[name |-> "count", type |-> "int", description |-> "how many"]>>,
     returns |-> [type |-> "dict", description |-> "data"],
     implementation |-> "return {}"]

ToolSpecs ==
    {ToolSpec("fetch", "Fetches a page"), ToolSpec("fetch", "Fetches a file"),
     ToolSpec("generate_bar_chart_data", "Other bars")}

\* tool_str of add_tool
FormatTool(tool_spec) ==
    <<[k |-> "name", v |-> <<tool_spec.name>>],
      [k |-> "description", v |-> <<tool_spec.description>>],
      [k |-> "parameters", v |-> <<>>]>>
        \o [i \in DOMAIN tool_spec.parameters |->
               [k |-> "-", v |-> <<tool_spec.parameters[i].name,
                                   tool_spec.parameters[i].type,
                                   tool_spec.parameters[i].description>>]]
        \o <<[k |-> "returns", v |-> <<tool_spec.returns.type,
                                       tool_spec.returns.description>>],
             [k |-> "implementation", v |-> <<>>],
             [k |-> "", v |-> <<tool_spec.implementation>>]>>

\* The tool entry read from a tool_str
ReadTool(lines) ==
    LET at(key) == CHOOSE i \in DOMAIN lines :
                       lines[i].k = key /\ \A j \in 1..(i - 1) : lines[j].k # key
        params == SelectSeq(lines, LAMBDA line : line.k = "-")
    IN [name |-> lines[at("name")].v[1],
        description |-> lines[at("description")].v[1],
        parameters |-> [i \in DOMAIN params |->
                           [name |-> params[i].v[1], type |-> params[i].v[2],
                            description |-> params[i].v[3]]],
        returns |-> [type |-> lines[at("returns")].v[1],
                     description |-> lines[at("returns")].v[2]],
        implementation |-> lines[at("implementation") + 1].v[1]]

\* add_tool_to_template(template_json, tool_str): the tool is appended, also
\* when the template has a tool of that name
add_tool_to_template(template_json, tool_str) ==
    LET template == Load(template_json) IN
    IF template.raised THEN template
    ELSE IF "tools" \notin DOMAIN template.value THEN Raises(<<"'tools'">>)
    ELSE Returns(Dump([template.value EXCEPT
                          !["tools"] = Append(@, ReadTool(tool_str))]))

\* The endpoint as it would be were the template sent without its tools
add_tool_SendsNoTools(template, tool_spec) ==
    LET template_json == Dump([template EXCEPT !["tools"] = <<>>])
        updated_template_json ==
            add_tool_to_template(template_json, FormatTool(tool_spec))
    IN IF updated_template_json.raised
       THEN HTTPException(500, <<"Error adding tool to agent template: ">>
                                   \o updated_template_json.value)
       ELSE Returned(Load(updated_template_json.value).value)

\* add_tool
add_tool(template, tool_spec) ==
    LET template_json == Dump(template)
        updated_template_json ==
            add_tool_to_template(template_json, FormatTool(tool_spec))
    IN IF updated_template_json.raised
       THEN HTTPException(500, <<"Error adding tool to agent template: ">>
                                   \o updated_template_json.value)
       ELSE Returned(Load(updated_template_json.value).value)

\* The templates a client has at hand to add a tool to: the documents of the
\* model, and the template the last create_template or add_tool returned
TemplatesAtHand ==
    Templates \cup (IF api.op \in {"create", "add_tool"} /\ api.result.kind = "return"
                    THEN {api.result.body} ELSE {})

\* POST /add-tool
AddTool ==
    /\ \E template \in TemplatesAtHand, tool_spec \in ToolSpecs :
         /\ Len(Get(template, "tools", <<>>)) < MaxTools
         /\ api' = [NoCall EXCEPT !.op = "add_tool", !.template = template,
                                  !.arg = tool_spec,
                                  !.result = add_tool(template, tool_spec)]
    /\ UNCHANGED <<chartVars, storeVars>>

----------------------------------------------------------------------------
(* agent_creator_api.py: the endpoints of the database of agent            *)
(* definitions.  AgentGenerator and AgentRepository are imported, not      *)
(* defined here: a missing id is a ValueError of the generator and a falsy *)
(* result of the repository; every other failure is another exception.     *)

\* An exception of a class: str(e) and whether `except ValueError` takes it
Fails(cls, msg) == [raised |-> TRUE, cls |-> cls, value |-> msg]

\* What can go wrong inside the generator or the repository
DbFaults == {"none", "persistence", "generation"}

FaultMsg(fault) ==
    IF fault = "persistence" THEN <<"database is unavailable">>
    ELSE <<"could not render the agent">>

NotFoundMsg(agent_id) == <<"Agent with ID ", ToString(agent_id), " not found">>

\* generator.load_definition_from_db(agent_id)
load_definition_from_db(store, agent_id, fault) ==
    IF fault = "persistence" THEN Fails("Exception", FaultMsg(fault))
    ELSE IF agent_id \notin DOMAIN store THEN Fails("ValueError", NotFoundMsg(agent_id))
    ELSE Returns([agent |-> [name |-> store[agent_id].name]])

\* generator.generate_agent_class_from_db(agent_id): loads, then renders
generate_agent_class_from_db(store, agent_id, fault) ==
    LET definition == load_definition_from_db(store, agent_id, fault) IN
    IF definition.raised THEN definition
    ELSE IF fault = "generation" THEN Fails("Exception", FaultMsg(fault))
    ELSE Returns(<<"class ", store[agent_id].name>>)

\* AgentRepository.delete_agent(agent_id, hard_delete): whether a row was
\* deleted, and the rows left
delete_agent(store, agent_id, hard_delete, fault) ==
    IF fault # "none" THEN Fails("Exception", FaultMsg(fault))
    ELSE IF agent_id \notin DOMAIN store THEN Returns([success |-> FALSE, store |-> store])
    ELSE Returns([success |-> TRUE,
                  store |-> [i \in (DOMAIN store) \ {agent_id} |-> store[i]]])

\* AgentRepository.get_agent(agent_id): the row, or None
get_agent(store, agent_id, fault) ==
    IF fault # "none" THEN Fails("Exception", FaultMsg(fault))
    ELSE IF agent_id \notin DOMAIN store THEN Returns([id |-> 0])
    ELSE Returns(store[agent_id])

\* get_agent_from_db
get_agent_from_db(store, agent_id, fault) ==
    LET definition == load_definition_from_db(store, agent_id, fault) IN
    IF ~definition.raised THEN Returned(definition.value)
    ELSE IF definition.cls = "ValueError" THEN HTTPException(404, definition.value)
    ELSE HTTPException(500, <<"Error getting agent from database: ">> \o definition.value)

\* delete_agent_from_db: the rows after the call, and the response
delete_agent_from_db(store, agent_id, hard_delete, fault) ==
    LET success == delete_agent(store, agent_id, hard_delete, fault) IN
    IF success.raised
    THEN [store |-> store,
          response |-> HTTPException(500, <<"Error deleting agent from database: ">>
                                              \o success.value)]
    ELSE IF ~success.value.success
    THEN [store |-> success.value.store,
          response |-> HTTPException(404, NotFoundMsg(agent_id))]
    ELSE [store |-> success.value.store,
          response |-> Returned([message |-> <<"Agent with ID ", ToString(agent_id),
                                               " deleted successfully">>])]

\* generate_code_from_db
generate_code_from_db(store, agent_id, fault) ==
    LET code == generate_agent_class_from_db(store, agent_id, fault) IN
    IF ~code.raised THEN Returned([code |-> code.value])
    ELSE IF code.cls = "ValueError" THEN HTTPException(404, code.value)
    ELSE HTTPException(500, <<"Error generating agent code from database: ">>
                                \o code.value)

\* The lookup as it would be without the `or {}`
MetaGet_NoOr(meta_data, key, default) ==
    IF meta_data.kind # "dict"
    THEN Raises(<<"'NoneType' object has no attribute 'get'">>)
    ELSE Returns(Get(meta_data.d, key, default))

\* metadata.get(key, default) on `agent.meta_data or {}`
MetaGet(meta_data, key, default) ==
    LET metadata == IF meta_data.kind = "null" \/ DOMAIN meta_data.d = {}
                    THEN Dict(EmptyDict) ELSE meta_data
    IN IF metadata.kind # "dict"
       THEN Raises(<<"object has no attribute 'get'">>)
       ELSE Returns(Get(metadata.d, key, default))

\* get_agent_relationships_from_db
get_agent_relationships_from_db(store, agent_id, fault) ==
    LET agent == get_agent(store, agent_id, fault) IN
    IF agent.raised
    THEN HTTPException(500, <<"Error getting agent relationships from database: ">>
                                \o agent.value)
    ELSE IF agent.value.id = 0
    THEN HTTPException(404, NotFoundMsg(agent_id))
    ELSE LET supervisor == MetaGet(agent.value.meta_data, "supervisor", None)
             subAgents == MetaGet(agent.value.meta_data, "subAgents", <<>>)
         IN IF supervisor.raised
            THEN HTTPException(500,
                     <<"Error getting agent relationships from database: ">>
                         \o supervisor.value)
            ELSE Returned([supervisor |-> supervisor.value,
                           subAgents |-> subAgents.value])

\* GET /db/agents/{agent_id}
GetAgentFromDb ==
    /\ \E agent_id \in DbIds, fault \in DbFaults \ {"generation"} :
         api' = [NoCall EXCEPT !.op = "db_get", !.agent_id = agent_id, !.fault = fault,
                               !.result = get_agent_from_db(db, agent_id, fault)]
    /\ UNCHANGED <<chartVars, storeVars>>

\* DELETE /db/agents/{agent_id}
DeleteAgentFromDb ==
    /\ \E agent_id \in DbIds, hard_delete \in BOOLEAN,
          fault \in DbFaults \ {"generation"} :
         LET out == delete_agent_from_db(db, agent_id, hard_delete, fault) IN
         /\ db' = out.store
         /\ api' = [NoCall EXCEPT !.op = "db_delete", !.agent_id = agent_id,
                                  !.fault = fault, !.result = out.response]
    /\ UNCHANGED <<chartVars, dirExists, files, saved, deleted>>

\* POST /db/generate-code/{agent_id}
GenerateCodeFromDb ==
    /\ \E agent_id \in DbIds, fault \in DbFaults :
         api' = [NoCall EXCEPT !.op = "db_generate", !.agent_id = agent_id,
                               !.fault = fault,
                               !.result = generate_code_from_db(db, agent_id, fault)]
    /\ UNCHANGED <<chartVars, storeVars>>

\* GET /db/agents/{agent_id}/relationships
GetRelationships ==
    /\ \E agent_id \in DbIds, fault \in DbFaults \ {"generation"} :
         api' = [NoCall EXCEPT !.op = "db_relationships", !.agent_id = agent_id,
                               !.fault = fault,
                               !.result = get_agent_relationships_from_db(db, agent_id, fault)]
    /\ UNCHANGED <<chartVars, storeVars>>

----------------------------------------------------------------------------
(* The specifications *)

\* The registry at process start: the chart agent is configured or is not
InitAgents ==
    agents \in {<<>>, ("helper" :> Instance(3))}
                 \cup {("chart_data_generator" :> Instance(d)) @@ ("helper" :> Instance(3)) :
                          d \in {1, 2, 4}}

Init ==
    /\ InitAgents
    /\ req = [r \in Reqs |-> FreeSlot]
    /\ api = NoCall
    /\ dirExists \in BOOLEAN
    /\ files = <<>>
    /\ saved = [i \in TemplateIds |-> NoTemplate]
    /\ deleted = [i \in TemplateIds |-> FALSE]
    /\ db = StoredAgents
    /\ loop = [t \in Tasks |-> IdleTask]

\* The chart component
NextChart ==
    \/ \E r \in Reqs : Receive(r)
    \/ \E r \in Reqs : SendDelivers(r)
    \/ \E r \in Reqs : SendRaises(r)
    \/ \E r \in Reqs : Forget(r)

\* The chart handlers on the event loop
NextLoop ==
    \/ \E t \in Tasks : Arrive(t)
    \/ \E t \in Tasks : Begin(t)
    \/ \E t \in Tasks : ToolReturns(t)
    \/ \E t \in Tasks : Reply(t)
    \/ \E t \in Tasks : Retire(t)

\* The template pipeline
NextPipeline ==
    \/ CreateTemplate
    \/ AddTool

\* add_tool next to the filesystem store
NextFrame ==
    \/ AddTool
    \/ SaveTemplate

\* The endpoints of the database of agent definitions
NextDb ==
    \/ GetAgentFromDb
    \/ DeleteAgentFromDb
    \/ GenerateCodeFromDb
    \/ DeployFromDb

\* The relationships of the stored agents, while agents are deleted
NextRel ==
    \/ GetRelationships
    \/ DeleteAgentFromDb

\* Deployments from the database while a chart request is dispatched and
\* waits for its send
NextRegistry ==
    \/ DeployFromDb
    \/ \E r \in Reqs : Receive(r)
    \/ \E r \in Reqs : SendDelivers(r)

\* The validate and deploy endpoints
NextApi ==
    \/ Validate
    \/ Deploy
    \/ DeployFromDb

\* The filesystem template store with its list endpoint
NextMap ==
    \/ SaveTemplate
    \/ GetTemplate
    \/ DeleteTemplate
    \/ GetTemplates

\* The filesystem template store
NextStore ==
    \/ SaveTemplate
    \/ GetTemplate
    \/ DeleteTemplate

Next ==
    NextChart \/ NextApi \/ NextStore \/ NextDb \/ NextRel \/ NextPipeline \/ NextLoop
        \/ NextMap

SpecChart == Init /\ [][NextChart]_vars
SpecApi == Init /\ [][NextApi]_vars
SpecStore == Init /\ [][NextStore]_vars
SpecDb == Init /\ [][NextDb]_vars
SpecLoop == Init /\ [][NextLoop]_vars
SpecPipeline == Init /\ [][NextPipeline]_vars
SpecFrame == Init /\ [][NextFrame]_vars
SpecRel == Init /\ [][NextRel]_vars
SpecRegistry == Init /\ [][NextRegistry]_vars
SpecMap == Init /\ [][NextMap]_vars
Spec == Init /\ [][Next]_vars

----------------------------------------------------------------------------
(* Claims about the registry under deployments and dispatches (SpecRegistry) *)

\* The instance is the whole instance of its definition
IsWhole(instance) == instance = Instance(instance.def)

\* C17: a deployment from the database that succeeds replaces the slot of
\* the definition's name by the new instance in one step and leaves every
\* other slot alone, so the slot holds the instance of the last registration
\* to complete whatever it held before; one that fails changes nothing;
\* deploying the same id again leaves the registry as it is; and a chart
\* request, which writes no slot, dispatched while deployments go on has
\* looked up either no instance or a whole one, the one the registry held
\* at its dispatch, and has called a tool of that instance only.
C17_LastWriterWins ==
    [][ /\ (api'.op = "deploy_from_db" /\ (api' # api \/ agents' # agents)) =>
              LET id == api'.agent_id IN
              IF api'.deployed
              THEN LET name == db[id].name IN
                   /\ DOMAIN agents' = DOMAIN agents \cup {name}
                   /\ agents'[name] = Instance(id)
                   /\ \A n \in DOMAIN agents \ {name} : agents'[n] = agents[n]
                   /\ (api.op = "deploy_from_db" /\ api.deployed /\ api.agent_id = id)
                         => agents' = agents
              ELSE agents' = agents
        /\ req' # req => agents' = agents
        /\ \A n \in DOMAIN agents' : IsWhole(agents'[n])
        /\ \A r \in Reqs :
              (req[r].pc = "free" /\ req'[r].pc = "send" /\ req'[r].resolved >= 0) =>
                  LET seen == Get(agents, "chart_data_generator", NoAgent) IN
                  /\ req'[r].resolved = seen.def
                  /\ seen = NoAgent \/ IsWhole(seen)
                  /\ \A i \in DOMAIN req'[r].invoked :
                        /\ req'[r].invoked[i].def = seen.def
                        /\ req'[r].invoked[i].index \in DOMAIN seen.tools
      ]_vars

\* A request that was dispatched to the first instance is still waiting for
\* its send when a deployment has put the second in the slot
C17_Witness ==
    /\ api.op = "deploy_from_db" /\ api.deployed /\ api.agent_id = 2
    /\ agents["chart_data_generator"] = Instance(2)
    /\ \E r \in Reqs :
          /\ req[r].pc = "send"
          /\ req[r].resolved = 1
          /\ req[r].invoked # <<>>

----------------------------------------------------------------------------
(* Claims about the chart component (SpecChart) *)

Ended(r) == req[r].pc \in {"done", "raised"}

\* The replies handed to send_json so far, and the one waiting to be sent
Sent(r) == req[r].attempts \o (IF req[r].pc = "send" THEN <<req[r].pending>> ELSE <<>>)

IsRouted(r) == req[r].pc # "free" /\ req[r].event["action"] = RouterAction
IsTyped(r) == req[r].pc # "free" /\ req[r].event["action"] # RouterAction

\* The event's data is a dict of parameters, or is left out
DictData(r) == Get(req[r].event, "data", Dict(EmptyDict)).kind = "dict"

Contains(msg, piece) == \E i \in 1..Len(msg) : msg[i] = piece

\* C1 as stated: a request whose handler has ended got exactly one reply,
\* whatever the outcome of the sends.
C1_ExactlyOneReply ==
    \A r \in Reqs : Ended(r) => Len(req[r].delivered) = 1

\* C1 amended: a request never gets more than one reply, also when the
\* routed inner handler has replied; it gets exactly one when a send
\* succeeds, and then the handler ends and sends nothing more; a send that
\* raises makes the handler send a failure reply again, at most three sends
\* in all; when every send raises the handler raises and no reply arrives.
C1_AtMostOneReply ==
    \A r \in Reqs :
        /\ Len(req[r].delivered) <= 1
        /\ Len(req[r].attempts) <= 3
        /\ req[r].pc = "done" =>
               /\ Len(req[r].delivered) = 1
               /\ req[r].delivered[1] = req[r].attempts[Len(req[r].attempts)]
        /\ req[r].pc = "raised" => req[r].delivered = <<>> /\ Len(req[r].attempts) >= 1
        /\ req[r].pc = "send" => req[r].delivered = <<>>
        /\ IsTyped(r) => Len(req[r].attempts) <= 2

\* A routed request whose first send raised and whose second send delivered
C1_Witness ==
    \E r \in Reqs :
        /\ IsRouted(r)
        /\ req[r].pc = "done"
        /\ Len(req[r].attempts) = 2
        /\ Len(req[r].delivered) = 1

\* C2: every reply built by _send_response is {type, data} with data holding
\* the component id, the event's action and the event's requestId next to
\* the payload (success and chart_data or error).
C2_EnvelopeEchoes ==
    \A r \in Reqs : \A i \in 1..Len(Sent(r)) :
        LET reply == Sent(r)[i] IN
        /\ DOMAIN reply = {"type", "data"}
        /\ reply.type = "ui_event"
        /\ {"component", "action", "requestId", "success"} \subseteq DOMAIN reply.data
        /\ reply.data["component"] = "chart-visualizer"
        /\ reply.data["action"] = req[r].event["action"]
        /\ "requestId" \in DOMAIN req[r].event =>
               reply.data["requestId"] = req[r].event["requestId"]
        /\ reply.data["success"] \in BOOLEAN
        /\ (DOMAIN reply.data) \ {"component", "action", "requestId", "success"}
               = IF reply.data["success"] THEN {"chart_data"} ELSE {"error"}

\* A success reply and a failure reply delivered for events with a requestId
C2_Witness ==
    \E r \in Reqs :
        /\ req[r].pc = "done"
        /\ "requestId" \in DOMAIN req[r].event
        /\ Len(req[r].attempts) = 2
        /\ req[r].attempts[1].data["success"]
        /\ ~req[r].delivered[1].data["success"]

\* C3: with no chart_data_generator among the running agents a typed chart
\* event (its data a dict of parameters or left out) is answered with
\* success false and an error containing "not found", every reply sent for
\* it is of that kind, and no tool is called.
C3_AgentNotFound ==
    \A r \in Reqs :
        (IsTyped(r) /\ DictData(r) /\ "chart_data_generator" \notin DOMAIN agents) =>
            /\ req[r].resolved = 0
            /\ req[r].invoked = <<>>
            /\ Len(Sent(r)) >= 1
            /\ \A i \in 1..Len(Sent(r)) :
                   /\ Sent(r)[i].data["success"] = FALSE
                   /\ Contains(Sent(r)[i].data["error"], " not found")

\* The reply delivered while another agent, the one the caller names, runs
C3_Witness ==
    \E r \in Reqs :
        /\ IsTyped(r) /\ DictData(r)
        /\ DOMAIN agents = {"helper"}
        /\ req[r].agent_id = "helper"
        /\ req[r].pc = "done"
        /\ Contains(req[r].delivered[1].data["error"], " not found")

\* C4: when a handler runs, the instance it looks up is the one stored under
\* chart_data_generator, and a dispatch of the same event with any other
\* agent_id and client_id looks up the same instance, calls the same tool
\* with the same arguments and sends the same success flag.
C4_CallerCannotChooseAgent ==
    [][\A r \in Reqs :
         (req[r].pc = "free" /\ req'[r].pc = "send") =>
             /\ req'[r].resolved \in {-1, Get(agents, "chart_data_generator", NoAgent).def}
             /\ \A a \in CallerAgentIds, c \in ClientIds :
                    LET o == HandleEvent(req'[r].event, a, c, agents) IN
                    /\ o.resolved = req'[r].resolved
                    /\ o.invoked = req'[r].invoked
                    /\ o.response_data.success = req'[r].pending.data["success"]
      ]_vars

\* A call of the chart agent's tool for a caller that names the other agent
C4_Witness ==
    \E r \in Reqs :
        /\ req[r].pc = "done"
        /\ req[r].agent_id = "helper"
        /\ "helper" \in DOMAIN agents
        /\ req[r].resolved = 1
        /\ Len(req[r].invoked) = 1
        /\ req[r].delivered[1].data["success"]

\* C5: for chart_type bar, line, pie or scatter (bar when left out) the
\* router looks up, calls and replies as the typed handler of that type does
\* for the same event, also when that handler's first send raises; for any
\* other chart_type it sends the "Unsupported chart type" failure without a
\* lookup or a tool call.
C5_RouterOnlyRoutes ==
    \A r \in Reqs :
        (IsRouted(r) /\ DictData(r)) =>
            LET event == req[r].event
                chart_type == Get(Get(event, "data", Dict(EmptyDict)).d, "chart_type", "bar")
                typed == TypedBody(chart_type, event, req[r].agent_id, "c1", agents)
            IN IF chart_type \in Kinds
               THEN /\ Sent(r)[1] = _send_response(event, typed.response_data)
                    /\ req[r].resolved = typed.resolved
                    /\ req[r].invoked = typed.invoked
                    /\ (Len(Sent(r)) >= 2 /\ typed.frames[1][2] = "try") =>
                           Sent(r)[2] = _send_response(event, TypedFailure(chart_type, SendErr))
               ELSE /\ Sent(r)[1] =
                           _send_response(event,
                               [success |-> FALSE,
                                error |-> <<"Unsupported chart type: ", chart_type>>])
                    /\ req[r].resolved = -1
                    /\ req[r].invoked = <<>>

\* A pie chart delivered through the router
C5_Witness ==
    \E r \in Reqs :
        /\ IsRouted(r)
        /\ Get(Get(req[r].event, "data", Dict(EmptyDict)).d, "chart_type", "bar") = "pie"
        /\ req[r].pc = "done"
        /\ req[r].delivered[1].data["success"]
        /\ req[r].delivered[1].data["chart_data"][1] = "pies"

\* The kind of chart a typed request asks for
KindOfRequest(r) == CHOOSE k \in Kinds : TypedAction(k) = req[r].event["action"]

\* The places of the tools of the handler's fixed name in the tool collection
Matches(tools, kind) == {i \in 1..Len(tools) : tools[i].name = ToolName(kind)}

\* C19: the first reply to a typed chart event has success true exactly
\* when the chart_data_generator instance is present, its tools include one
\* of the handler's fixed name and that tool was called and returned; then
\* chart_data is what the tool returned.  At most one tool is called for an
\* event, and it is the first of that name in the order of the collection.
\* With parameters that can be read, an instance with a tool of the name has
\* it called, and one without is answered with a "tool not found" failure
\* and no tool called.
C19_FirstMatchingToolDecides ==
    \A r \in Reqs :
        IsTyped(r) =>
            LET kind == KindOfRequest(r)
                agent == Get(agents, "chart_data_generator", NoAgent)
                found == Matches(agent.tools, kind)
                first == Sent(r)[1].data
                calls == req[r].invoked
            IN
            /\ Len(calls) <= 1
            /\ \A c \in DOMAIN calls :
                  /\ calls[c].def = agent.def
                  /\ calls[c].index \in found
                  /\ \A i \in found : calls[c].index <= i
            /\ first["success"] = TRUE <=>
                  /\ agent # NoAgent
                  /\ found # {}
                  /\ calls # <<>>
                  /\ ~agent.tools[calls[1].index].raises
            /\ first["success"] = TRUE =>
                  first["chart_data"] =
                      <<agent.tools[calls[1].index].ret, calls[1].kwargs>>
            /\ (DictData(r) /\ agent # NoAgent /\ found # {}) => calls # <<>>
            /\ (DictData(r) /\ agent # NoAgent /\ found = {}) =>
                  /\ calls = <<>>
                  /\ first["success"] = FALSE
                  /\ Contains(first["error"], " tool not found")

\* The pie tool called is the first of two of that name, and its value is
\* the chart data delivered
C19_Witness ==
    \E r \in Reqs :
        /\ IsTyped(r) /\ KindOfRequest(r) = "pie"
        /\ Get(agents, "chart_data_generator", NoAgent) = Instance(2)
        /\ req[r].pc = "done"
        /\ Len(req[r].invoked) = 1
        /\ req[r].invoked[1].index = 3
        /\ Len(req[r].delivered) = 1
        /\ req[r].delivered[1].data["success"] = TRUE
        /\ req[r].delivered[1].data["chart_data"][1] = "pies2"

\* C16 as stated: while the tool called for one event is running, another
\* event that has arrived can be dispatched, and one whose reply is ready
\* can be answered, before that tool returns.
C16_ToolDelaysOnlyItsEvent ==
    \A a, b \in Tasks :
        (a # b /\ loop[a].pc = "tool") =>
            /\ loop[b].pc = "queued" => ENABLED Begin(b)
            /\ loop[b].pc = "send" => ENABLED Reply(b)

----------------------------------------------------------------------------
(* Claims about the validate and deploy endpoints (SpecApi) *)

IsDeployCall == api.op \in {"deploy", "deploy_from_db"}

\* The name of the agent a successful deploy call has deployed
DeployedName ==
    IF api.op = "deploy" THEN AgentName(api.template).value ELSE Db[api.agent_id]

\* C6: both deploy endpoints always return a result with a boolean success,
\* whatever the template or agent id and whether or not the engine fails;
\* with success the agent_id is the name of the agent just deployed, without
\* success the agent_id is null and a message says why.
C6_DeployNeverRaises ==
    IsDeployCall =>
        /\ api.result.kind = "return"
        /\ api.result.status = 200
        /\ DOMAIN api.result.body = {"success", "message", "agent_id"}
        /\ api.result.body.success \in BOOLEAN
        /\ api.result.body.success =>
               /\ api.result.body.agent_id = DeployedName
               /\ DeployedName \in DOMAIN agents
        /\ ~api.result.body.success =>
               /\ api.result.body.agent_id = None
               /\ Len(api.result.body.message) >= 2

\* A deploy of a template without an agent section, answered with a failure
C6_Witness ==
    /\ api.op = "deploy"
    /\ "agent" \notin DOMAIN api.template
    /\ api.result.kind = "return"
    /\ ~api.result.body.success

C7_SandboxDecidesTarget ==
    api.op = "deploy" =>
        \A fault \in BOOLEAN :
            deploy_agent_endpoint(api.template, [sandbox |-> ~api.sandbox], fault).target
                # api.target

----------------------------------------------------------------------------
(* Claims about the filesystem template store (SpecStore) *)

\* C9: a get of an id whose last save succeeded, with no save or delete of
\* that id in between, returns the document of that id whose template is
\* the template saved.
C9_SaveThenGet ==
    (api.op = "get" /\ saved[api.template_id] # NoTemplate) =>
        /\ api.result.kind = "return"
        /\ api.result.body.id = api.template_id
        /\ api.result.body.template = saved[api.template_id]

\* A get that returns the template saved last, while the other id holds
\* another template
C9_Witness ==
    /\ api.op = "get"
    /\ saved[api.template_id] = ChartBot
    /\ \E other \in TemplateIds : saved[other] = DigestBot
    /\ api.result.kind = "return"
    /\ api.result.body.template = ChartBot

\* C10: a get of an id deleted with success, with no save of that id since,
\* returns 404 and no template.
C10_DeleteThenGet ==
    (api.op = "get" /\ deleted[api.template_id]) =>
        /\ api.result.kind = "http_error"
        /\ api.result.status = 404

\* A get answered 404 after the delete of a template, the directory in place
C10_Witness ==
    /\ api.op = "get"
    /\ deleted[api.template_id]
    /\ dirExists
    /\ api.result.status = 404

\* C11: a get or a delete of an id that has no file in the store, also when
\* the store is empty or its directory was never created, is answered 404,
\* not 500 and not a template, and leaves the files as they were; and 404 is
\* the answer only for such an id.
C11_MissingIsNotFound ==
    [][api'.op \in {"get", "delete"} =>
           LET missing == ~Exists(files, TemplateFile(api'.template_id)) IN
           /\ missing =>
                  /\ api'.result.kind = "http_error"
                  /\ api'.result.status = 404
                  /\ files' = files
           /\ api'.result.status = 404 => missing
      ]_vars

\* A delete answered 404 in a store whose directory was never created, and a
\* get answered 404 while the other id is stored
C11_Witness ==
    /\ api.result.status = 404
    /\ \/ api.op = "delete" /\ ~dirExists /\ files = <<>>
       \/ /\ api.op = "get"
          /\ \E other \in TemplateIds \ {api.template_id} : saved[other] # NoTemplate

\* What get_templates makes of the files: the ids it lists, each with the
\* template it lists for it
Listed(fs) ==
    LET docs == ListFiles(fs, CHOOSE order \in GlobOrders(fs) : TRUE)
    IN {<<docs[i].id, docs[i].template>> : i \in DOMAIN docs}

\* The part of a listing about one id, and the part about the others
About(listing, id) == {e \in listing : e[1] = id}
NotAbout(listing, id) == {e \in listing : e[1] # id}

\* C21: the store is a map from id to template as get_templates shows it.
\* Every step is one call, the one api' tells of.  A save leaves the other
\* ids as they are; when it succeeds its id is listed with the template
\* given, and when it fails its id is listed as before or with the template
\* given.  A delete leaves the other ids as they are; when it succeeds its
\* id is listed no more, and when it fails nothing changes.  get_template
\* and get_templates change no file, and get_templates answers with each
\* listed id once and with its template.
C21_StoreIsAMap ==
    [][ LET before == Listed(files)
            after == Listed(files')
            id == api'.template_id
            ok == api'.result.kind = "return"
        IN
        /\ api'.op = "save" =>
              /\ NotAbout(after, id) = NotAbout(before, id)
              /\ ok => About(after, id) = {<<id, api'.template>>}
              /\ ~ok => About(after, id) \in {About(before, id), {<<id, api'.template>>}}
        /\ api'.op = "delete" =>
              /\ NotAbout(after, id) = NotAbout(before, id)
              /\ ok => About(after, id) = {}
              /\ ~ok => after = before
        /\ api'.op \in {"get", "list"} => files' = files
        /\ api'.op = "list" =>
              /\ ok
              /\ {<<api'.result.body[i].id, api'.result.body[i].template>> :
                      i \in DOMAIN api'.result.body} = before
              /\ Len(api'.result.body) = Cardinality(before)
      ]_vars

----------------------------------------------------------------------------
(* Claims about the endpoints of the database of agent definitions         *)
(* (SpecDb, SpecRel)                                                       *)

DbOps == {"db_get", "db_delete", "db_generate", "deploy_from_db"}

\* What a caller can tell of a response without reading its message text
OutcomeClass(result) ==
    IF result.kind = "http_error" THEN <<"http_error", result.status>>
    ELSE IF "success" \in DOMAIN result.body /\ ~result.body.success
    THEN <<"failure", 200>>
    ELSE <<"ok", 200>>

\* Why a call fails: the database cannot be read, or else the id is not in
\* it, or else the agent cannot be rendered
FailureCause(store, agent_id, fault) ==
    IF fault = "persistence" THEN "other"
    ELSE IF agent_id \notin DOMAIN store THEN "not_found"
    ELSE IF fault = "generation" THEN "other"
    ELSE "none"

\* C12 as stated: in get, delete, deploy and generate-code alike, a call for
\* an id that is not in the database is answered with the not-found outcome
\* (404), and a call that fails for any other cause is answered with a
\* failure that is not the not-found outcome; so the two are told apart.
C12_SameErrorMapping ==
    [][api'.op \in DbOps =>
           LET cause == FailureCause(db, api'.agent_id, api'.fault) IN
           /\ cause = "not_found" =>
                  OutcomeClass(api'.result) = <<"http_error", 404>>
           /\ cause = "other" =>
                  /\ OutcomeClass(api'.result)[1] # "ok"
                  /\ OutcomeClass(api'.result) # <<"http_error", 404>>
           /\ cause = "none" => OutcomeClass(api'.result)[1] = "ok"
      ]_vars

\* C13: the relationships of an agent that is in the database are returned
\* as {supervisor, subAgents}: with the metadata None or empty they are null
\* and the empty list, a key that is present gives its value, a key that is
\* not gives its default, and no metadata gives an error.
C13_RelationshipsDefaults ==
    (api.op = "db_relationships" /\ api.fault = "none" /\ api.agent_id \in DOMAIN db) =>
        LET meta_data == db[api.agent_id].meta_data
            keys == IF meta_data.kind = "dict" THEN DOMAIN meta_data.d ELSE {}
        IN /\ api.result.kind = "return"
           /\ DOMAIN api.result.body = {"supervisor", "subAgents"}
           /\ api.result.body.supervisor =
                  IF "supervisor" \in keys THEN meta_data.d["supervisor"] ELSE None
           /\ api.result.body.subAgents =
                  IF "subAgents" \in keys THEN meta_data.d["subAgents"] ELSE <<>>

\* The relationships of an agent stored without metadata, and of one whose
\* metadata names a supervisor only, asked for after another agent was deleted
C13_Witness ==
    /\ api.op = "db_relationships"
    /\ api.result.kind = "return"
    /\ DOMAIN db # DOMAIN Db
    /\ \/ api.agent_id = 1 /\ api.result.body.supervisor = None
       \/ /\ api.agent_id = 3
          /\ api.result.body.supervisor = "boss"
          /\ api.result.body.subAgents = <<>>

----------------------------------------------------------------------------
(* Claims about create_template and add_tool (SpecPipeline, SpecFrame)     *)

ToolNames(template) ==
    LET tools == Get(template, "tools", <<>>) IN {tools[i].name : i \in DOMAIN tools}

\* C14 as stated: add_tool fails when the template it is given has a tool
\* of the new tool's name, and no template returned by create_template or
\* add_tool has two tools of one name.
C14_ToolNamesDistinct ==
    /\ (api.op = "add_tool" /\ api.arg.name \in ToolNames(api.template)) =>
           api.result.kind # "return"
    /\ (api.op \in {"create", "add_tool"} /\ api.result.kind = "return") =>
           LET tools == api.result.body["tools"] IN
           \A i, j \in DOMAIN tools : tools[i].name = tools[j].name => i = j

C18_CreateKeepsFields ==
    api.op = "create" =>
        IF RequiredFields \subseteq DOMAIN api.arg
        THEN /\ api.result.kind = "return"
             /\ \A field \in RequiredFields :
                    api.result.body["agent"].d[field] = api.arg[field]
        ELSE api.result.kind # "return"

====
